---- MODULE Spec2Model ----
(***************************************************************************)
(* A model of the jubjub package: field elements (field_element.go),       *)
(* scalars, the curve context and the points with their group law and      *)
(* compressed encoding, and the calls a user of the package can make.      *)
(*                                                                         *)
(* The package fixes 255-bit parameters.  TLC's integers have 32 bits, so  *)
(* the model runs the same code on a parameter set of the same shape:      *)
(*   - the field order is a prime p = 1 (mod 8) whose bit length is 7      *)
(*     (mod 8), so that an encoded coordinate leaves exactly one spare     *)
(*     bit, the sign bit, and values in [p, 2^BitLen(p)) are encodable     *)
(*     but not canonical;                                                  *)
(*   - d = -c/(c+1) is computed as Curve() computes it and is a            *)
(*     non-square, -1 is a square;                                         *)
(*   - the group has order 8*n with n prime and 8 < n;                     *)
(*   - the point with y = 11 and even x generates the whole group.         *)
(* A machine word holds one byte (UintSize = 8), so that an encoding is a  *)
(* whole number of words, as 32 bytes are four 64-bit words.               *)
(***************************************************************************)
EXTENDS Integers, Sequences, FiniteSets, TLC

VARIABLES curve, pts, fes, ret

vars == <<curve, pts, fes, ret>>

(***************************************************************************)
(* Parameters.                                                             *)
(***************************************************************************)
fieldOrder == 73

subgroupOrder == 11

dDenominator == 27

dNumerator == -26

cofactorValue == 8

generatorYValue == 11

UintSize == 8

EncodedLen == 1

(* Bounds of the inputs the calls are tried on. *)
MaxLen == 2

MaxBig == 24

(***************************************************************************)
(* math/big: the operations of big.Int the package uses.                   *)
(***************************************************************************)
RECURSIVE BitLen(_)
BitLen(n) == IF n = 0 THEN 0 ELSE 1 + BitLen(n \div 2)

Bit(n, i) == (n \div (2 ^ i)) % 2

(* big.Int.ModInverse(g, m): the inverse of g when g and m are coprime;   *)
(* otherwise the receiver is left unchanged (and nil is returned).        *)
InverseTable ==
    [g \in 0..(fieldOrder - 1) |->
        IF g = 0 THEN 0 ELSE CHOOSE i \in 1..(fieldOrder - 1) : (i * g) % fieldOrder = 1]

Coprime(g) == g % fieldOrder # 0

BigModInverse(z, g) == IF Coprime(g) THEN InverseTable[g % fieldOrder] ELSE z

(* big.Int.ModSqrt(x, p): a square root of x mod p, or nil and the        *)
(* receiver unchanged when x is no square.  Which of the two roots the     *)
(* library returns is its own choice; the model takes the smaller one.     *)
SqrtTable ==
    [x \in 0..(fieldOrder - 1) |->
        IF \E r \in 0..(fieldOrder - 1) : (r * r) % fieldOrder = x
        THEN CHOOSE r \in 0..(fieldOrder - 1) :
                /\ (r * r) % fieldOrder = x
                /\ \A s \in 0..(fieldOrder - 1) : (s * s) % fieldOrder = x => r <= s
        ELSE -1]

HasSqrt(x) == SqrtTable[x % fieldOrder] # -1

(* big.Int.SetBits of words filled from little-endian bytes. *)
RECURSIVE LittleEndian(_)
LittleEndian(bytes) ==
    IF bytes = <<>> THEN 0 ELSE Head(bytes) + 256 * LittleEndian(Tail(bytes))

Take(s, n) == IF Len(s) <= n THEN s ELSE SubSeq(s, 1, n)

ByteAt(v, i) == (v \div (256 ^ i)) % 256

(***************************************************************************)
(* FieldElement: the value FieldElement.n; fieldOrder is the constant.     *)
(* Each operation gives the value its receiver z holds afterwards.         *)
(***************************************************************************)
newFieldElement(n) == IF n > fieldOrder THEN n % fieldOrder ELSE n

FeMul(x, y) == (x * y) % fieldOrder

FeSub(x, y) == (x - y) % fieldOrder

FeAdd(x, y) == (x + y) % fieldOrder

FeNeg(x) == (0 - x) % fieldOrder

FeModInverse(z, x) == BigModInverse(z, x)

(* The *FieldElement ModInverse returns: z in every case. *)
FeModInverseReturnsNil(x) == FALSE

FeModSqrt(z, x) == IF HasSqrt(x) THEN SqrtTable[x % fieldOrder] ELSE z

FeModSqrtReturnsNil(x) == ~HasSqrt(x)

FeWordCount == (BitLen(fieldOrder) + 7) \div UintSize

FeFromBytes(ser) ==
    LittleEndian(Take(ser, FeWordCount * (UintSize \div 8))) % fieldOrder

FeByteLen == (BitLen(fieldOrder) + 7) \div 8

FeToBytes(n) == [i \in 1..FeByteLen |-> ByteAt(n % fieldOrder, i - 1)]

(***************************************************************************)
(* Scalar: the value Scalar.n, with the error the constructor returns.     *)
(***************************************************************************)
NoError == "nil"

ErrInvalidPoint == "ErrInvalidPoint"

ErrScalarOutOfRange == "ErrScalarOutOfRange"

newScalar(n) ==
    IF n > subgroupOrder \/ n < 0
    THEN [n |-> n % subgroupOrder, err |-> ErrScalarOutOfRange]
    ELSE [n |-> n, err |-> NoError]

ScalarWordCount == (BitLen(subgroupOrder) + 7) \div UintSize

ScalarFromBytes(in) ==
    LET n == LittleEndian(Take(in, ScalarWordCount * (UintSize \div 8)))
    IN  IF n > subgroupOrder \/ n < 0
        THEN [n |-> n % subgroupOrder, err |-> ErrScalarOutOfRange]
        ELSE [n |-> n, err |-> NoError]

ScalarFromBig(n) == newScalar(n)

(***************************************************************************)
(* The curve context Curve() builds.                                       *)
(***************************************************************************)
Curve ==
    [fieldOrder    |-> fieldOrder,
     subgroupOrder |-> subgroupOrder,
     generatorY    |-> newFieldElement(generatorYValue),
     d             |-> newFieldElement(BigModInverse(dDenominator, dDenominator) * dNumerator),
     cofactor      |-> newScalar(cofactorValue).n,
     fieldZero     |-> newFieldElement(0),
     fieldOne      |-> newFieldElement(1)]

(***************************************************************************)
(* Point: a record of the values of its two coordinates; nil is the nil    *)
(* pointer.  The in-place methods work on a heap h, a function from the    *)
(* names of Point objects to their values, and give the heap afterwards:   *)
(* the receiver may be the same object as an argument.                     *)
(***************************************************************************)
nil == [nil |-> TRUE]

Identity == [x |-> newFieldElement(0), y |-> newFieldElement(1)]

Clone(P) == [x |-> P.x, y |-> P.y]

Equals(P, Q) == P.x = Q.x /\ P.y = Q.y

IsOnCurve(P) ==
    LET xx     == FeMul(P.x, P.x)
        yy     == FeMul(P.y, P.y)
        dxxyy0 == FeMul(xx, yy)
        dxxyy1 == FeMul(dxxyy0, curve.d)
        dxxyy2 == FeAdd(dxxyy1, curve.fieldOne)
        dxxyy3 == FeNeg(dxxyy2)
        r0     == FeNeg(xx)
        r1     == FeAdd(r0, yy)
        r2     == FeAdd(r1, dxxyy3)
    IN  r2 = curve.fieldZero

IsIdentity(P) == P.x = curve.fieldZero /\ P.y = curve.fieldOne

OrBit7(b, s) == IF s = 1 /\ b < 128 THEN b + 128 ELSE b

(* MarshalBinary as it would be if it left the sign of x out. *)
MarshalBinaryNoSign(P) == FeToBytes(P.y)

MarshalBinary(P) ==
    LET feX == FeToBytes(P.x)
        feY == FeToBytes(P.y)
    IN  [feY EXCEPT ![EncodedLen] = OrBit7(feY[EncodedLen], feX[1] % 2)]

Compress(P) == MarshalBinary(P)

(* UnmarshalBinary on the point P: the error returned and the value the   *)
(* point holds afterwards.                                                 *)
UnmarshalBinary(P, compressed) ==
    IF Len(compressed) # EncodedLen
    THEN [err |-> ErrInvalidPoint, pt |-> P]
    ELSE
      LET sign == compressed[EncodedLen] \div 128
          in   == [compressed EXCEPT ![EncodedLen] = compressed[EncodedLen] % 128]
          y    == FeFromBytes(in)
          yy   == FeMul(y, y)
          u0   == FeSub(yy, curve.fieldOne)
          v0   == FeAdd(FeMul(yy, curve.d), curve.fieldOne)
          v1   == FeModInverse(v0, v0)
          u1   == FeMul(u0, v1)
      IN  IF FeModSqrtReturnsNil(u1)
          THEN [err |-> ErrInvalidPoint, pt |-> P]
          ELSE
            LET u2           == FeModSqrt(u1, u1)
                decompressed == FeToBytes(u2)[1] % 2
                u3           == IF sign # decompressed THEN FeNeg(u2) ELSE u2
                Q            == [x |-> u3, y |-> y]
            IN  IF ~IsOnCurve(Q)
                THEN [err |-> ErrInvalidPoint, pt |-> Q]
                ELSE [err |-> NoError, pt |-> Q]

(* Decompress as it would be if it returned p along with the error. *)
DecompressKeepsPoint(compressed) ==
    LET r == UnmarshalBinary([x |-> newFieldElement(0), y |-> newFieldElement(0)], compressed)
    IN  [pt |-> r.pt, err |-> r.err]

Decompress(compressed) ==
    LET r == UnmarshalBinary([x |-> newFieldElement(0), y |-> newFieldElement(0)], compressed)
    IN  IF r.err # NoError
        THEN [pt |-> nil, err |-> r.err]
        ELSE [pt |-> r.pt, err |-> NoError]

(* Neg as it would be if it negated y and copied x. *)
NegY(h, p, q) ==
    LET h1 == [h EXCEPT ![p].y = FeNeg(h[q].y)]
    IN  [h1 EXCEPT ![p].x = h1[q].x]

Neg(h, p, q) ==
    LET h1 == [h EXCEPT ![p].x = FeNeg(h[q].x)]
    IN  [h1 EXCEPT ![p].y = h1[q].y]

(* Jubjub.Add as it would be with y3 = (y1*y2 - x1*x2) / (1 - d*x1*x2*y1*y2), *)
(* the formula for a = 1.                                                     *)
CurveAddWrongSign(p1, p2) ==
    LET x1y2 == FeMul(p1.x, p2.y)
        x2y1 == FeMul(p2.x, p1.y)
        y1y2 == FeMul(p1.y, p2.y)
        x1x2 == FeMul(p1.x, p2.x)
        commonTerm == FeMul(FeMul(x1x2, y1y2), curve.d)
        tmp1a == FeAdd(curve.fieldOne, commonTerm)
        tmp1  == FeModInverse(tmp1a, tmp1a)
        tmp2a == FeSub(curve.fieldOne, commonTerm)
        tmp2  == FeModInverse(tmp2a, tmp2a)
        x3    == FeMul(FeAdd(x1y2, x2y1), tmp1)
        y3    == FeMul(FeSub(y1y2, x1x2), tmp2)
    IN  [x |-> x3, y |-> y3]

(* Jubjub.Add and Jubjub.Double: the newly allocated result. *)
CurveAdd(p1, p2) ==
    LET x1y2 == FeMul(p1.x, p2.y)
        x2y1 == FeMul(p2.x, p1.y)
        y1y2 == FeMul(p1.y, p2.y)
        x1x2 == FeMul(p1.x, p2.x)
        commonTerm == FeMul(FeMul(x1x2, y1y2), curve.d)
        tmp1a == FeAdd(curve.fieldOne, commonTerm)
        tmp1  == FeModInverse(tmp1a, tmp1a)
        tmp2a == FeSub(curve.fieldOne, commonTerm)
        tmp2  == FeModInverse(tmp2a, tmp2a)
        x3    == FeMul(FeAdd(x1y2, x2y1), tmp1)
        y3    == FeMul(FeAdd(y1y2, x1x2), tmp2)
    IN  [x |-> x3, y |-> y3]

CurveDouble(p1) ==
    LET x1x1 == FeMul(p1.x, p1.x)
        y1y1 == FeMul(p1.y, p1.y)
        x1y1 == FeMul(p1.x, p1.y)
        commonTerm == FeMul(FeMul(x1x1, y1y1), curve.d)
        tmpa == FeAdd(curve.fieldOne, commonTerm)
        tmpb == FeModInverse(tmpa, tmpa)
        x3   == FeMul(FeAdd(x1y1, x1y1), tmpb)
        tmpc == FeSub(curve.fieldOne, commonTerm)
        tmpd == FeModInverse(tmpc, tmpc)
        y3   == FeMul(FeAdd(y1y1, x1x1), tmpd)
    IN  [x |-> x3, y |-> y3]

(* Point.Add as it would be if it read its arguments again after writing  *)
(* p.x, instead of using the products it computed first.                  *)
PointAddAliased(h, p, p1, p2) ==
    LET x1y2 == FeMul(h[p1].x, h[p2].y)
        x2y1 == FeMul(h[p2].x, h[p1].y)
        commonTerm == FeMul(FeMul(FeMul(h[p1].x, h[p2].x), FeMul(h[p1].y, h[p2].y)), curve.d)
        tmpa == FeAdd(curve.fieldOne, commonTerm)
        tmpb == FeModInverse(tmpa, tmpa)
        h1   == [h EXCEPT ![p].x = FeMul(FeAdd(x1y2, x2y1), tmpb)]
        y1y2 == FeMul(h1[p1].y, h1[p2].y)
        x1x2 == FeMul(h1[p1].x, h1[p2].x)
        tmpc == FeSub(curve.fieldOne, commonTerm)
        tmpd == FeModInverse(tmpc, tmpc)
    IN  [h1 EXCEPT ![p].y = FeMul(FeAdd(y1y2, x1x2), tmpd)]

(* Point.Add and Point.Double: p is written while p1 and p2 are read. *)
PointAdd(h, p, p1, p2) ==
    LET x1y2 == FeMul(h[p1].x, h[p2].y)
        x2y1 == FeMul(h[p2].x, h[p1].y)
        y1y2 == FeMul(h[p1].y, h[p2].y)
        x1x2 == FeMul(h[p1].x, h[p2].x)
        commonTerm == FeMul(FeMul(x1x2, y1y2), curve.d)
        tmpa == FeAdd(curve.fieldOne, commonTerm)
        tmpb == FeModInverse(tmpa, tmpa)
        h1   == [h EXCEPT ![p].x = FeMul(FeAdd(x1y2, x2y1), tmpb)]
        tmpc == FeSub(curve.fieldOne, commonTerm)
        tmpd == FeModInverse(tmpc, tmpc)
    IN  [h1 EXCEPT ![p].y = FeMul(FeAdd(y1y2, x1x2), tmpd)]

PointDouble(h, p, p1) ==
    LET x1x1 == FeMul(h[p1].x, h[p1].x)
        y1y1 == FeMul(h[p1].y, h[p1].y)
        x1y1 == FeMul(h[p1].x, h[p1].y)
        commonTerm == FeMul(FeMul(x1x1, y1y1), curve.d)
        tmpa == FeAdd(curve.fieldOne, commonTerm)
        tmpb == FeModInverse(tmpa, tmpa)
        h1   == [h EXCEPT ![p].x = FeMul(FeAdd(x1y1, x1y1), tmpb)]
        tmpc == FeSub(curve.fieldOne, commonTerm)
        tmpd == FeModInverse(tmpc, tmpc)
    IN  [h1 EXCEPT ![p].y = FeMul(FeAdd(y1y1, x1x1), tmpd)]

(* The loop of ScalarMult over the bits of the scalar, from bit i down. *)
RECURSIVE Ladder(_, _, _)
Ladder(h, n, i) ==
    IF i < 0 THEN h
    ELSE IF Bit(n, i) = 0
         THEN Ladder(PointDouble(PointAdd(h, "r1", "r0", "r1"), "r0", "r0"), n, i - 1)
         ELSE Ladder(PointDouble(PointAdd(h, "r0", "r0", "r1"), "r1", "r1"), n, i - 1)

(* ScalarMult as it would be if its loop started one bit too low. *)
ScalarMultSkipsTopBit(scalar, point) ==
    IF ~IsOnCurve(point)
    THEN [pt |-> nil, err |-> ErrInvalidPoint]
    ELSE [pt  |-> Ladder([r0 |-> Identity, r1 |-> Clone(point)], scalar,
                         BitLen(scalar) - 2)["r0"],
          err |-> NoError]

ScalarMult(scalar, point) ==
    IF ~IsOnCurve(point)
    THEN [pt |-> nil, err |-> ErrInvalidPoint]
    ELSE [pt  |-> Ladder([r0 |-> Identity, r1 |-> Clone(point)], scalar,
                         BitLen(scalar) - 1)["r0"],
          err |-> NoError]

(* MulByCofactor on the point P: whether it dereferences the nil result   *)
(* of a failed ScalarMult, and the value P holds afterwards.               *)
MulByCofactor(P) ==
    LET res == ScalarMult(curve.cofactor, P).pt
    IN  IF res = nil
        THEN [panic |-> TRUE, pt |-> P]
        ELSE [panic |-> FALSE, pt |-> [x |-> res.x, y |-> res.y]]

Generator == Decompress(FeToBytes(curve.generatorY)).pt

(* SubgroupGenerator as it would be without the multiplication by the cofactor. *)
SubgroupGeneratorNoCofactor == Generator

SubgroupGenerator == MulByCofactor(Generator).pt

(***************************************************************************)
(* The caller.                                                             *)
(*   pts  the Point objects the caller holds, by the variable that refers  *)
(*        to each (nil: none).  p and q are its operands, r is the         *)
(*        variable it stores a returned Point in; r starts as a fresh      *)
(*        Identity(), so that it can also be the receiver of an in-place   *)
(*        method.                                                          *)
(*   fes  the FieldElement objects the caller holds, likewise.             *)
(*   ret  the call made: its name, the variables and inputs it was given   *)
(*        (av, bv: the values its Point arguments had when it was made),   *)
(*        and what it returned.                                            *)
(* A specification lets the caller make one call from each state its Init  *)
(* draws, and Init draws every operand the constructors can return.        *)
(***************************************************************************)
PointVars == {"p", "q", "r"}

FeVars == {"z", "x"}

NoCall ==
    [op |-> "none", err |-> NoError, panic |-> FALSE, isnil |-> FALSE,
     dst |-> "", a |-> "", b |-> "", av |-> nil, bv |-> nil,
     k |-> 0, n |-> 0, in |-> <<>>, out |-> <<>>]

Call(op) == [NoCall EXCEPT !.op = op]

Bytes == 0..255

(* Every byte string of the encoded length. *)
EncodedStrings == [1..EncodedLen -> Bytes]

(* Those, and strings of the other lengths up to MaxLen. *)
ByteStrings ==
    EncodedStrings \cup
    UNION {[1..len -> {0, 11, 255}] : len \in (0..MaxLen) \ {EncodedLen}}

BigInts == (0 - MaxBig)..MaxBig

(* The scalars ScalarFromBig returns. *)
Scalars == {ScalarFromBig(v).n : v \in BigInts}

(* The operands a caller can hold: no point (nil), or a point Decompress *)
(* returns.                                                               *)
StartPoints == {nil} \cup {Decompress(c).pt : c \in EncodedStrings}

Init ==
    /\ curve = Curve
    /\ \E P, Q \in StartPoints : pts = [p |-> P, q |-> Q, r |-> Identity]
    /\ fes = [v \in FeVars |-> nil]
    /\ ret = NoCall

(* The caller has made no call yet, and holds no, one or two operands. *)
Idle == ret.op = "none"

HoldsNone == Idle /\ pts["p"] = nil /\ pts["q"] = nil

HoldsOne == Idle /\ pts["p"] # nil /\ pts["q"] = nil

HoldsTwo == Idle /\ pts["p"] # nil /\ pts["q"] # nil

CallIdentity(dst) ==
    /\ pts' = [pts EXCEPT ![dst] = Identity]
    /\ ret' = [Call("Identity") EXCEPT !.dst = dst]
    /\ UNCHANGED <<curve, fes>>

CallGenerator(dst) ==
    /\ pts' = [pts EXCEPT ![dst] = Generator]
    /\ ret' = [Call("Generator") EXCEPT !.dst = dst]
    /\ UNCHANGED <<curve, fes>>

CallSubgroupGenerator(dst) ==
    /\ pts' = [pts EXCEPT ![dst] = SubgroupGenerator]
    /\ ret' = [Call("SubgroupGenerator") EXCEPT !.dst = dst]
    /\ UNCHANGED <<curve, fes>>

CallDecompress(dst, c) ==
    LET res == Decompress(c)
    IN  /\ pts' = [pts EXCEPT ![dst] = res.pt]
        /\ ret' = [Call("Decompress") EXCEPT !.dst = dst, !.in = c, !.err = res.err]
        /\ UNCHANGED <<curve, fes>>

CallUnmarshalBinary(p, c) ==
    /\ pts[p] # nil
    /\ LET res == UnmarshalBinary(pts[p], c)
       IN  /\ pts' = [pts EXCEPT ![p] = res.pt]
           /\ ret' = [Call("UnmarshalBinary") EXCEPT
                         !.dst = p, !.av = pts[p], !.in = c, !.err = res.err]
    /\ UNCHANGED <<curve, fes>>

CallMarshalBinary(p) ==
    /\ pts[p] # nil
    /\ ret' = [Call("MarshalBinary") EXCEPT
                  !.a = p, !.av = pts[p], !.out = MarshalBinary(pts[p])]
    /\ UNCHANGED <<curve, pts, fes>>

CallClone(dst, p) ==
    /\ pts[p] # nil
    /\ pts' = [pts EXCEPT ![dst] = Clone(pts[p])]
    /\ ret' = [Call("Clone") EXCEPT !.dst = dst, !.a = p, !.av = pts[p]]
    /\ UNCHANGED <<curve, fes>>

CallNeg(p, q) ==
    /\ pts[p] # nil /\ pts[q] # nil
    /\ pts' = Neg(pts, p, q)
    /\ ret' = [Call("Neg") EXCEPT !.dst = p, !.a = q, !.av = pts[q]]
    /\ UNCHANGED <<curve, fes>>

CallCurveAdd(dst, p1, p2) ==
    /\ pts[p1] # nil /\ pts[p2] # nil
    /\ pts' = [pts EXCEPT ![dst] = CurveAdd(pts[p1], pts[p2])]
    /\ ret' = [Call("Jubjub.Add") EXCEPT
                  !.dst = dst, !.a = p1, !.b = p2, !.av = pts[p1], !.bv = pts[p2]]
    /\ UNCHANGED <<curve, fes>>

CallCurveDouble(dst, p1) ==
    /\ pts[p1] # nil
    /\ pts' = [pts EXCEPT ![dst] = CurveDouble(pts[p1])]
    /\ ret' = [Call("Jubjub.Double") EXCEPT !.dst = dst, !.a = p1, !.av = pts[p1]]
    /\ UNCHANGED <<curve, fes>>

CallPointAdd(p, p1, p2) ==
    /\ pts[p] # nil /\ pts[p1] # nil /\ pts[p2] # nil
    /\ pts' = PointAdd(pts, p, p1, p2)
    /\ ret' = [Call("Point.Add") EXCEPT
                  !.dst = p, !.a = p1, !.b = p2, !.av = pts[p1], !.bv = pts[p2]]
    /\ UNCHANGED <<curve, fes>>

CallPointDouble(p, p1) ==
    /\ pts[p] # nil /\ pts[p1] # nil
    /\ pts' = PointDouble(pts, p, p1)
    /\ ret' = [Call("Point.Double") EXCEPT !.dst = p, !.a = p1, !.av = pts[p1]]
    /\ UNCHANGED <<curve, fes>>

CallScalarMult(dst, k, p) ==
    /\ pts[p] # nil
    /\ LET res == ScalarMult(k, pts[p])
       IN  /\ pts' = [pts EXCEPT ![dst] = res.pt]
           /\ ret' = [Call("ScalarMult") EXCEPT
                         !.dst = dst, !.a = p, !.av = pts[p], !.k = k, !.err = res.err]
    /\ UNCHANGED <<curve, fes>>

CallMulByCofactor(p) ==
    /\ pts[p] # nil
    /\ LET res == MulByCofactor(pts[p])
       IN  /\ pts' = [pts EXCEPT ![p] = res.pt]
           /\ ret' = [Call("MulByCofactor") EXCEPT
                         !.dst = p, !.a = p, !.av = pts[p], !.panic = res.panic]
    /\ UNCHANGED <<curve, fes>>

(* Scalar construction. *)
CallScalarFromBig(v) ==
    /\ LET res == ScalarFromBig(v)
       IN  ret' = [Call("ScalarFromBig") EXCEPT !.k = v, !.n = res.n, !.err = res.err]
    /\ UNCHANGED <<curve, pts, fes>>

CallScalarFromBytes(in) ==
    /\ LET res == ScalarFromBytes(in)
       IN  ret' = [Call("ScalarFromBytes") EXCEPT !.in = in, !.n = res.n, !.err = res.err]
    /\ UNCHANGED <<curve, pts, fes>>

(* FieldElement methods: z is the receiver; ret.k and ret.n are the values *)
(* x and z held when the call was made.                                    *)
CallFeMul(z, x, y) ==
    /\ fes' = [fes EXCEPT ![z] = [n |-> FeMul(fes[x].n, fes[y].n)]]
    /\ ret' = [Call("FieldElement.Mul") EXCEPT
                  !.dst = z, !.a = x, !.b = y, !.k = fes[x].n, !.n = fes[z].n]
    /\ UNCHANGED <<curve, pts>>

CallFeModInverse(z, x) ==
    /\ fes' = [fes EXCEPT ![z] = [n |-> FeModInverse(fes[z].n, fes[x].n)]]
    /\ ret' = [Call("FieldElement.ModInverse") EXCEPT
                  !.dst = z, !.a = x, !.k = fes[x].n, !.n = fes[z].n,
                  !.isnil = FeModInverseReturnsNil(fes[x].n)]
    /\ UNCHANGED <<curve, pts>>

CallFeModSqrt(z, x) ==
    /\ fes' = [fes EXCEPT ![z] = [n |-> FeModSqrt(fes[z].n, fes[x].n)]]
    /\ ret' = [Call("FieldElement.ModSqrt") EXCEPT
                  !.dst = z, !.a = x, !.k = fes[x].n, !.n = fes[z].n,
                  !.isnil = FeModSqrtReturnsNil(fes[x].n)]
    /\ UNCHANGED <<curve, pts>>

(***************************************************************************)
(* Spec: the exported Point API.  A call is made by the caller that holds  *)
(* as many operands as the call reads: what a call does not read, it does  *)
(* not depend on.                                                          *)
(***************************************************************************)
Next ==
    \/ HoldsNone /\ CallIdentity("r")
    \/ HoldsNone /\ CallGenerator("r")
    \/ HoldsNone /\ CallSubgroupGenerator("r")
    \/ HoldsNone /\ \E c \in ByteStrings : CallDecompress("r", c)
    \/ HoldsOne /\ \E c \in ByteStrings : CallUnmarshalBinary("p", c)
    \/ HoldsOne /\ CallMarshalBinary("p")
    \/ HoldsOne /\ CallClone("r", "p")
    \/ HoldsOne /\ \E recv \in {"p", "r"} : CallNeg(recv, "p")
    \/ HoldsOne /\ CallCurveDouble("r", "p")
    \/ HoldsOne /\ \E recv \in {"p", "r"} : CallPointDouble(recv, "p")
    \/ HoldsOne /\ \E k \in Scalars : CallScalarMult("r", k, "p")
    \/ HoldsOne /\ CallMulByCofactor("p")
    \/ HoldsTwo /\ \E p1, p2 \in {"p", "q"} : CallCurveAdd("r", p1, p2)
    \/ HoldsTwo /\ \E recv, p1, p2 \in PointVars : CallPointAdd(recv, p1, p2)

Spec == Init /\ [][Next]_vars

(***************************************************************************)
(* SpecRaw: a caller inside the package, which can overwrite a coordinate  *)
(* of a point it holds, as TestPointClone does, and then multiplies it.    *)
(***************************************************************************)
SetX(P, v) == [P EXCEPT !.x = newFieldElement(v)]

InitRaw ==
    /\ curve = Curve
    /\ \E P \in {Identity, Generator, SubgroupGenerator}, v \in 0..(fieldOrder - 1) :
          pts = [p |-> SetX(P, v), q |-> nil, r |-> Identity]
    /\ fes = [v \in FeVars |-> nil]
    /\ ret = NoCall

NextRaw ==
    \/ HoldsOne /\ \E k \in Scalars : CallScalarMult("r", k, "p")
    \/ HoldsOne /\ CallMulByCofactor("p")

SpecRaw == InitRaw /\ [][NextRaw]_vars

(***************************************************************************)
(* SpecScalar: the construction of scalars.                                *)
(***************************************************************************)
InitScalar ==
    /\ curve = Curve
    /\ pts = [p |-> nil, q |-> nil, r |-> Identity]
    /\ fes = [v \in FeVars |-> nil]
    /\ ret = NoCall

NextScalar ==
    \/ Idle /\ \E v \in BigInts : CallScalarFromBig(v)
    \/ Idle /\ \E in \in ByteStrings : CallScalarFromBytes(in)

SpecScalar == InitScalar /\ [][NextScalar]_vars

(***************************************************************************)
(* SpecField: the FieldElement methods, on the field elements FeFromBytes  *)
(* returns.                                                                *)
(***************************************************************************)
StartElements == {[n |-> FeFromBytes(in)] : in \in ByteStrings}

InitField ==
    /\ curve = Curve
    /\ pts = [p |-> nil, q |-> nil, r |-> Identity]
    /\ fes \in [FeVars -> StartElements]
    /\ ret = NoCall

NextField ==
    \/ Idle /\ \E z, x, y \in FeVars : CallFeMul(z, x, y)
    \/ Idle /\ \E z, x \in FeVars : CallFeModInverse(z, x)
    \/ Idle /\ \E z, x \in FeVars : CallFeModSqrt(z, x)

SpecField == InitField /\ [][NextField]_vars

(***************************************************************************)
(* SpecElement: the construction of field elements and every FieldElement  *)
(* method that writes its receiver.                                        *)
(***************************************************************************)
FeSet(x) == x

(* big.Int.Exp with a positive modulus and an exponent y >= 0. *)
RECURSIVE FeExp(_, _)
FeExp(x, y) == IF y <= 0 THEN 1 % fieldOrder ELSE (x * FeExp(x, y - 1)) % fieldOrder

CallNewFieldElement(z, v) ==
    /\ fes' = [fes EXCEPT ![z] = [n |-> newFieldElement(v)]]
    /\ ret' = [Call("newFieldElement") EXCEPT !.dst = z, !.k = v, !.n = fes[z].n]
    /\ UNCHANGED <<curve, pts>>

CallFeFromBytes(z, in) ==
    /\ fes' = [fes EXCEPT ![z] = [n |-> FeFromBytes(in)]]
    /\ ret' = [Call("FeFromBytes") EXCEPT !.dst = z, !.in = in, !.n = fes[z].n]
    /\ UNCHANGED <<curve, pts>>

CallFeSet(z, x) ==
    /\ fes' = [fes EXCEPT ![z] = [n |-> FeSet(fes[x].n)]]
    /\ ret' = [Call("FieldElement.Set") EXCEPT
                  !.dst = z, !.a = x, !.k = fes[x].n, !.n = fes[z].n]
    /\ UNCHANGED <<curve, pts>>

CallFeExp(z, x, y) ==
    /\ fes' = [fes EXCEPT ![z] = [n |-> FeExp(fes[x].n, fes[y].n)]]
    /\ ret' = [Call("FieldElement.Exp") EXCEPT
                  !.dst = z, !.a = x, !.b = y, !.k = fes[x].n, !.n = fes[z].n]
    /\ UNCHANGED <<curve, pts>>

CallFeSub(z, x, y) ==
    /\ fes' = [fes EXCEPT ![z] = [n |-> FeSub(fes[x].n, fes[y].n)]]
    /\ ret' = [Call("FieldElement.Sub") EXCEPT
                  !.dst = z, !.a = x, !.b = y, !.k = fes[x].n, !.n = fes[z].n]
    /\ UNCHANGED <<curve, pts>>

CallFeAdd(z, x, y) ==
    /\ fes' = [fes EXCEPT ![z] = [n |-> FeAdd(fes[x].n, fes[y].n)]]
    /\ ret' = [Call("FieldElement.Add") EXCEPT
                  !.dst = z, !.a = x, !.b = y, !.k = fes[x].n, !.n = fes[z].n]
    /\ UNCHANGED <<curve, pts>>

CallFeNeg(z, x) ==
    /\ fes' = [fes EXCEPT ![z] = [n |-> FeNeg(fes[x].n)]]
    /\ ret' = [Call("FieldElement.Neg") EXCEPT
                  !.dst = z, !.a = x, !.k = fes[x].n, !.n = fes[z].n]
    /\ UNCHANGED <<curve, pts>>

NextElement ==
    \/ Idle /\ \E z \in FeVars, v \in BigInts \cup {fieldOrder, fieldOrder + 1} :
                  CallNewFieldElement(z, v)
    \/ Idle /\ \E z \in FeVars, in \in ByteStrings : CallFeFromBytes(z, in)
    \/ Idle /\ \E z, x \in FeVars : CallFeSet(z, x)
    \/ Idle /\ \E z, x, y \in FeVars : CallFeExp(z, x, y)
    \/ Idle /\ \E z, x, y \in FeVars : CallFeMul(z, x, y)
    \/ Idle /\ \E z, x, y \in FeVars : CallFeSub(z, x, y)
    \/ Idle /\ \E z, x, y \in FeVars : CallFeAdd(z, x, y)
    \/ Idle /\ \E z, x \in FeVars : CallFeNeg(z, x)
    \/ Idle /\ \E z, x \in FeVars : CallFeModInverse(z, x)
    \/ Idle /\ \E z, x \in FeVars : CallFeModSqrt(z, x)

SpecElement == InitField /\ [][NextElement]_vars

(***************************************************************************)
(* SpecContext: sequences of calls on one context.  Here fes records, for  *)
(* each Point the caller holds, the objects its coordinates are: a         *)
(* FieldElement allocated for it, or one of the FieldElements the context  *)
(* caches.  A method that writes a coordinate writes that object, and so   *)
(* the context when the object is the context's.                           *)
(***************************************************************************)
Fresh == "new"

CachedElements == {"generatorY", "d", "fieldZero", "fieldOne"}

(* What FieldElement.ToBytes leaves in its receiver. *)
FeToBytesReceiver(n) == n % fieldOrder

(* Identity() as it would be if it returned the cached 0 and 1. *)
IdentityCached == [x |-> "fieldZero", y |-> "fieldOne"]

(* The coordinate objects of the point each constructor returns. *)
IdentityObjects == [x |-> Fresh, y |-> Fresh]

DecompressObjects == [x |-> Fresh, y |-> Fresh]

CloneObjects == [x |-> Fresh, y |-> Fresh]

AddObjects == [x |-> Fresh, y |-> Fresh]

DoubleObjects == [x |-> Fresh, y |-> Fresh]

(* ScalarMult returns r0, the point Identity() gave it. *)
ScalarMultObjects == IdentityObjects

(* The context after the value v is written to the object obj, and after *)
(* the point P is written to the coordinate objects objs.                 *)
ContextWrite(c, obj, v) == IF obj \in CachedElements THEN [c EXCEPT ![obj] = v] ELSE c

ContextStore(c, objs, P) == ContextWrite(ContextWrite(c, objs.x, P.x), objs.y, P.y)

(* The context after Generator(): generatorY.ToBytes() has reduced it. *)
ContextAfterGenerator(c) ==
    [c EXCEPT !.generatorY = FeToBytesReceiver(c.generatorY)]

(* The context after ScalarMult has written r0 in its loop and left the *)
(* point r0 in it; r0 is nil when ScalarMult returned before.            *)
ContextAfterScalarMult(c, r0) ==
    IF r0 = nil THEN c ELSE ContextStore(c, ScalarMultObjects, r0)

(* A call returns the point P, with coordinate objects objs, into dst. *)
Returns(dst, P, objs, c) ==
    /\ pts' = [pts EXCEPT ![dst] = P]
    /\ fes' = [fes EXCEPT ![dst] = IF P = nil THEN nil ELSE objs]
    /\ curve' = c
    /\ UNCHANGED ret

(* An in-place method leaves P in its receiver recv; ret keeps that an *)
(* in-place method has been called.                                    *)
Writes(recv, P, c) ==
    /\ pts' = [pts EXCEPT ![recv] = P]
    /\ curve' = ContextStore(c, fes[recv], P)
    /\ ret' = Call("in place")
    /\ UNCHANGED fes

Held == {"p", "q"}

(* The encodings the caller decompresses: of the generator, of the      *)
(* identity with and without the sign bit, of a point with y = 0, and   *)
(* one Decompress rejects.                                               *)
ContextEncodings ==
    {FeToBytes(generatorYValue),
     FeToBytes(1), [FeToBytes(1) EXCEPT ![EncodedLen] = OrBit7(@, 1)],
     FeToBytes(0), FeToBytes(4)}

(* The scalars the caller multiplies by: 0, the cofactor and the scalar *)
(* built from the subgroup order.                                        *)
ContextScalars == {ScalarFromBig(0).n, newScalar(cofactorValue).n, ScalarFromBig(subgroupOrder).n}

ContextIdentity(dst) == Returns(dst, Identity, IdentityObjects, curve)

ContextGenerator(dst) ==
    Returns(dst, Generator, DecompressObjects, ContextAfterGenerator(curve))

ContextSubgroupGenerator(dst) ==
    \E sg \in {SubgroupGenerator} :
        Returns(dst, sg, DecompressObjects,
                ContextAfterScalarMult(ContextAfterGenerator(curve), sg))

ContextDecompress(dst, c) == Returns(dst, Decompress(c).pt, DecompressObjects, curve)

ContextIsOnCurve(p) == pts[p] # nil /\ IsOnCurve(pts[p]) \in BOOLEAN /\ UNCHANGED vars

ContextIsIdentity(p) == pts[p] # nil /\ IsIdentity(pts[p]) \in BOOLEAN /\ UNCHANGED vars

ContextClone(dst, p) == pts[p] # nil /\ Returns(dst, Clone(pts[p]), CloneObjects, curve)

ContextCurveAdd(dst, p1, p2) ==
    /\ pts[p1] # nil /\ pts[p2] # nil
    /\ Returns(dst, CurveAdd(pts[p1], pts[p2]), AddObjects, curve)

ContextCurveDouble(dst, p1) ==
    pts[p1] # nil /\ Returns(dst, CurveDouble(pts[p1]), DoubleObjects, curve)

ContextNeg(p, q) ==
    /\ pts[p] # nil /\ pts[q] # nil
    /\ Writes(p, Neg(pts, p, q)[p], curve)

ContextPointAdd(p, p1, p2) ==
    /\ pts[p] # nil /\ pts[p1] # nil /\ pts[p2] # nil
    /\ Writes(p, PointAdd(pts, p, p1, p2)[p], curve)

ContextPointDouble(p, p1) ==
    /\ pts[p] # nil /\ pts[p1] # nil
    /\ Writes(p, PointDouble(pts, p, p1)[p], curve)

ContextScalarMult(dst, k, p) ==
    /\ pts[p] # nil
    /\ \E res \in {ScalarMult(k, pts[p])} :
          Returns(dst, res.pt, ScalarMultObjects, ContextAfterScalarMult(curve, res.pt))

ContextMulByCofactor(p) ==
    /\ pts[p] # nil
    /\ \E res \in {MulByCofactor(pts[p])} :
          ~res.panic /\ Writes(p, res.pt, ContextAfterScalarMult(curve, res.pt))

InitContext ==
    /\ curve = Curve
    /\ pts = [v \in PointVars |-> nil]
    /\ fes = [v \in PointVars |-> nil]
    /\ ret = NoCall

NextContext ==
    \/ \E dst \in Held : ContextIdentity(dst)
    \/ \E dst \in Held : ContextGenerator(dst)
    \/ \E dst \in Held : ContextSubgroupGenerator(dst)
    \/ \E dst \in Held, c \in ContextEncodings : ContextDecompress(dst, c)
    \/ \E p \in Held : ContextIsOnCurve(p)
    \/ \E p \in Held : ContextIsIdentity(p)
    \/ \E dst, p \in Held : ContextClone(dst, p)
    \/ \E dst, p1, p2 \in Held : ContextCurveAdd(dst, p1, p2)
    \/ \E dst, p1 \in Held : ContextCurveDouble(dst, p1)
    \/ \E p, q \in Held : ContextNeg(p, q)
    \/ \E p, p1, p2 \in Held : ContextPointAdd(p, p1, p2)
    \/ \E p, p1 \in Held : ContextPointDouble(p, p1)
    \/ \E k \in ContextScalars : ContextScalarMult("q", k, "p")
    \/ \E p \in Held : ContextMulByCofactor(p)

SpecContext == InitContext /\ [][NextContext]_vars

(***************************************************************************)
(* SpecToBytes: a caller that holds a scalar s, whose integer is ret.k,    *)
(* and a point p; it multiplies, calls s.ToBytes() and multiplies again.   *)
(***************************************************************************)
ScalarByteLen == (BitLen(subgroupOrder) + 7) \div 8

(* What Scalar.ToBytes leaves in sc.n, the big.Int its copy of the scalar *)
(* shares with the caller's scalar, and the bytes it returns.             *)
ScalarToBytesReceiver(n) == n % subgroupOrder

ScalarToBytes(n) == [i \in 1..ScalarByteLen |-> ByteAt(ScalarToBytesReceiver(n), i - 1)]

(* The integers of the scalars ScalarFromBig and ScalarFromBytes return. *)
HeldScalars == Scalars \cup {ScalarFromBytes(in).n : in \in EncodedStrings}

InitToBytes ==
    /\ curve = Curve
    /\ \E P \in StartPoints \ {nil}, k \in HeldScalars :
          /\ pts = [p |-> P, q |-> nil, r |-> nil]
          /\ ret = [NoCall EXCEPT !.k = k]
    /\ fes = [v \in FeVars |-> nil]

ScalarMultBefore ==
    /\ ret.op = "none"
    /\ pts' = [pts EXCEPT !["q"] = ScalarMult(ret.k, pts["p"]).pt]
    /\ ret' = [ret EXCEPT !.op = "ScalarMult"]
    /\ UNCHANGED <<curve, fes>>

CallScalarToBytes ==
    /\ ret.op = "ScalarMult"
    /\ ret' = [ret EXCEPT !.op = "Scalar.ToBytes",
                          !.n = ret.k,
                          !.k = ScalarToBytesReceiver(ret.k),
                          !.out = ScalarToBytes(ret.k)]
    /\ UNCHANGED <<curve, pts, fes>>

ScalarMultAfter ==
    /\ ret.op = "Scalar.ToBytes"
    /\ pts' = [pts EXCEPT !["r"] = ScalarMult(ret.k, pts["p"]).pt]
    /\ ret' = [ret EXCEPT !.op = "ScalarMult after ToBytes"]
    /\ UNCHANGED <<curve, fes>>

NextToBytes ==
    \/ ScalarMultBefore
    \/ CallScalarToBytes
    \/ ScalarMultAfter

SpecToBytes == InitToBytes /\ [][NextToBytes]_vars

(***************************************************************************)
(* The properties.                                                         *)
(***************************************************************************)

(* C1: for every byte string c of the encoded length that Decompress      *)
(* accepts, MarshalBinary of the returned point is c.  The code accepts   *)
(* encodings that are not canonical, and this fails.                       *)
CexC1 ==
    (ret.op = "Decompress" /\ ret.err = NoError)
        => MarshalBinary(pts[ret.dst]) = ret.in

(* C2: ScalarFromBig(v), and ScalarFromBytes of the encoding of v, return *)
(* v mod n with ErrScalarOutOfRange when v >= n or v < 0, and v with no   *)
(* error when 0 <= v < n.  The code accepts v = n, and this fails.        *)
ClaimedScalar(v) ==
    IF v >= subgroupOrder \/ v < 0
    THEN [n |-> v % subgroupOrder, err |-> ErrScalarOutOfRange]
    ELSE [n |-> v, err |-> NoError]

CexC2 ==
    /\ ret.op = "ScalarFromBig"
          => [n |-> ret.n, err |-> ret.err] = ClaimedScalar(ret.k)
    /\ (ret.op = "ScalarFromBytes" /\ Len(ret.in) = EncodedLen)
          => [n |-> ret.n, err |-> ret.err] = ClaimedScalar(LittleEndian(ret.in))

(* The y an encoding holds, its sign bit cleared, and whether the u       *)
(* derived from it, u = (y^2 - 1) / (d*y^2 + 1), is a non-residue.        *)
EncodedY(c) == (LittleEndian(c) % (2 ^ (8 * EncodedLen - 1))) % fieldOrder

DerivedUIsNonResidue(c) ==
    LET y   == EncodedY(c)
        num == (y * y - 1) % fieldOrder
        den == (curve.d * y * y + 1) % fieldOrder
    IN  \E u \in 0..(fieldOrder - 1) :
            /\ den # 0
            /\ (u * den) % fieldOrder = num
            /\ \A r \in 0..(fieldOrder - 1) : (r * r) % fieldOrder # u

(* C3: Decompress returns ErrInvalidPoint and nil for an input that is    *)
(* not of the encoded length, and for one whose derived u is a            *)
(* non-residue; it never returns a point together with an error.          *)
TheoremC3 ==
    ret.op = "Decompress" =>
        /\ Len(ret.in) # EncodedLen
              => (ret.err = ErrInvalidPoint /\ pts[ret.dst] = nil)
        /\ (Len(ret.in) = EncodedLen /\ DerivedUIsNonResidue(ret.in))
              => (ret.err = ErrInvalidPoint /\ pts[ret.dst] = nil)
        /\ ~(pts[ret.dst] # nil /\ ret.err # NoError)

WitnessC3 ==
    /\ ret.op = "Decompress"
    /\ Len(ret.in) = EncodedLen
    /\ DerivedUIsNonResidue(ret.in)
    /\ ret.err = ErrInvalidPoint
    /\ pts[ret.dst] = nil

(* C4: ScalarMult and MulByCofactor on a point that is not on the curve   *)
(* end with ErrInvalidPoint, without a nil dereference, and leave the     *)
(* point as it was.  MulByCofactor dereferences the nil result, and this  *)
(* fails.                                                                  *)
CexC4 ==
    (ret.op \in {"ScalarMult", "MulByCofactor"} /\ ~IsOnCurve(ret.av)) =>
        /\ ~ret.panic
        /\ ret.err = ErrInvalidPoint
        /\ pts[ret.a] = ret.av

(* The point reached from Identity() by k calls acc.Add(acc, P). *)
RECURSIVE RepeatedAdd(_, _)
RepeatedAdd(h, k) ==
    IF k = 0 THEN h ELSE RepeatedAdd(PointAdd(h, "acc", "acc", "point"), k - 1)

AddTimes(k, P) == RepeatedAdd([acc |-> Identity, point |-> P], k)["acc"]

(* C5: for every point P on the curve and every scalar k, 0 included,     *)
(* ScalarMult(k, P) is the point reached from Identity() by adding P to   *)
(* the accumulator k times.                                                *)
TheoremC5 ==
    (ret.op = "ScalarMult" /\ IsOnCurve(ret.av)) =>
        /\ ret.err = NoError
        /\ pts[ret.dst] = AddTimes(ret.k, ret.av)

WitnessC5 ==
    /\ ret.op = "ScalarMult"
    /\ ret.k > 2
    /\ IsOnCurve(ret.av) /\ ~IsIdentity(ret.av)
    /\ pts[ret.dst] = AddTimes(ret.k, ret.av)
    /\ ~IsIdentity(pts[ret.dst])

(* C6: with the scalar ScalarFromBig builds from the subgroup order,      *)
(* ScalarMult of SubgroupGenerator() is Identity().                        *)
TheoremC6 ==
    (/\ ret.op = "ScalarMult"
     /\ ret.k = ScalarFromBig(subgroupOrder).n
     /\ ret.av = SubgroupGenerator) =>
        /\ ret.err = NoError
        /\ Equals(pts[ret.dst], Identity)

WitnessC6 ==
    /\ ret.op = "ScalarMult"
    /\ ret.k = ScalarFromBig(subgroupOrder).n
    /\ ret.av = SubgroupGenerator
    /\ ~IsIdentity(ret.av)
    /\ Equals(pts[ret.dst], Identity)

(* The point q.Neg(P) leaves in q. *)
NegOf(P) == Neg([q |-> Identity, point |-> P], "q", "point")["q"]

(* C7: for every point P on the curve, P plus Neg(P) is the identity      *)
(* (0, 1), by Jubjub.Add and by Point.Add.                                 *)
TheoremC7 ==
    (/\ ret.op \in {"Jubjub.Add", "Point.Add"}
     /\ IsOnCurve(ret.av)
     /\ ret.bv = NegOf(ret.av)) =>
        pts[ret.dst] = [x |-> 0, y |-> 1]

WitnessC7 ==
    /\ ret.op = "Point.Add"
    /\ IsOnCurve(ret.av) /\ ret.av.x # 0
    /\ ret.bv = NegOf(ret.av)
    /\ ret.dst = ret.a
    /\ pts[ret.dst] = [x |-> 0, y |-> 1]

(* C8: Point.Add leaves in its receiver what Jubjub.Add returns and       *)
(* Point.Double what Jubjub.Double returns, also when the receiver is one *)
(* of the arguments or both.                                               *)
TheoremC8 ==
    /\ ret.op = "Point.Add" => pts[ret.dst] = CurveAdd(ret.av, ret.bv)
    /\ ret.op = "Point.Double" => pts[ret.dst] = CurveDouble(ret.av)

WitnessC8 ==
    /\ ret.op = "Point.Add"
    /\ ret.dst = ret.a /\ ret.dst = ret.b
    /\ ret.av.x # 0 /\ ret.av.y # 0
    /\ pts[ret.dst] = CurveAdd(ret.av, ret.bv)

(* C9: every Point the caller holds after a call satisfies the curve      *)
(* equation, and a call that fails returns none.  Every such point is     *)
(* also the point Decompress returns for its encoding, one of the         *)
(* operands Init draws: what holds after one call from the states of Init *)
(* holds after every sequence of calls.                                    *)
TheoremC9 ==
    /\ \A v \in PointVars :
          pts[v] # nil =>
              /\ IsOnCurve(pts[v])
              /\ Decompress(MarshalBinary(pts[v])).pt = pts[v]
    /\ (ret.op \in {"Decompress", "ScalarMult"} /\ ret.err # NoError)
          => pts[ret.dst] = nil

WitnessC9 ==
    /\ ret.op = "Jubjub.Add"
    /\ pts[ret.dst] \notin {ret.av, ret.bv, Identity}
    /\ IsOnCurve(pts[ret.dst])

(* C10: FieldElement.ModInverse of 0 gives its caller a failure signal.   *)
(* The code returns its receiver, unchanged, and this fails.               *)
CexC10 ==
    (ret.op = "FieldElement.ModInverse" /\ ret.k = 0) => ret.isnil

(* C11: every FieldElement holds a value v with 0 <= v < p, after         *)
(* construction and after every operation, and so does the coefficient d  *)
(* Curve() stores.  newFieldElement reduces only what is greater than p,  *)
(* and this fails.                                                         *)
CexC11 ==
    /\ \A z \in FeVars : fes[z].n \in 0..(fieldOrder - 1)
    /\ curve.d \in 0..(fieldOrder - 1)

(* C12: after every sequence of calls on a context, the context holds the *)
(* values Curve() gave it, and no Point the caller holds has a cached     *)
(* FieldElement of the context as a coordinate object.                     *)
TheoremC12 ==
    /\ curve = Curve
    /\ \A v \in PointVars :
          pts[v] # nil => (fes[v].x \notin CachedElements /\ fes[v].y \notin CachedElements)

WitnessC12 ==
    /\ ret.op = "in place"
    /\ pts["p"] # nil /\ pts["q"] # nil
    /\ IsIdentity(pts["q"]) /\ ~IsIdentity(pts["p"])
    /\ curve = Curve

(* C13: Scalar.ToBytes does not change the integer the scalar holds, and *)
(* ScalarMult(s, P) returns the same point before and after s.ToBytes().  *)
(* ToBytes reduces the integer in place; a scalar built from the subgroup *)
(* order holds it unreduced, and this fails.                               *)
CexC13 ==
    /\ ret.op = "Scalar.ToBytes" => ret.k = ret.n
    /\ ret.op = "ScalarMult after ToBytes" => pts["r"] = pts["q"]

(* C14: for every point P on the curve, the points with x = 0 included,  *)
(* Decompress of Compress(P) returns no error and a point with the x and  *)
(* the y of P.                                                             *)
TheoremC14 ==
    (ret.op = "MarshalBinary" /\ IsOnCurve(ret.av)) =>
        /\ Compress(ret.av) = ret.out
        /\ Decompress(ret.out).err = NoError
        /\ Decompress(ret.out).pt = [x |-> ret.av.x, y |-> ret.av.y]

WitnessC14 ==
    /\ ret.op = "MarshalBinary"
    /\ IsOnCurve(ret.av)
    /\ ret.av.x = 0 /\ ret.av.y # 1
    /\ Decompress(ret.out).pt = [x |-> ret.av.x, y |-> ret.av.y]

====
